---- MODULE Spec2Model ----
(***************************************************************************)
(* The research route of the Deep Research Orchestrator                    *)
(* (src/app/api/research/route.ts): one POST request that decomposes a     *)
(* question, fans out to four engine personas, and synthesizes a report.   *)
(*                                                                         *)
(* JavaScript strings are TLA+ strings.  Every other JavaScript value is a *)
(* tagged record, so that values of different types can be compared.       *)
(***************************************************************************)
EXTENDS Integers, Sequences, FiniteSets, TLC

(***************************************************************************)
(* JavaScript values                                                       *)
(***************************************************************************)
Undefined == [t |-> "undefined"]
Null      == [t |-> "null"]
Str(s)    == [t |-> "string", s |-> s]
Num(n)    == [t |-> "number", n |-> n]
Bool(b)   == [t |-> "boolean", b |-> b]
Arr(a)    == [t |-> "array", a |-> a]
\* An object keeps its own keys in insertion order: k[i] is the i-th key and
\* v[i] its value.
Obj(k, v) == [t |-> "object", k |-> k, v |-> v]
EmptyObj  == Obj(<<>>, <<>>)

IndexOf(seq, x) ==
  IF \E i \in 1..Len(seq) : seq[i] = x
  THEN CHOOSE i \in 1..Len(seq) : seq[i] = x /\ \A j \in 1..(i - 1) : seq[j] # x
  ELSE 0

HasKey(o, key) == o.t = "object" /\ IndexOf(o.k, key) > 0

\* o[key] = val on an object: an existing key keeps its position.
SetKey(o, key, val) ==
  IF IndexOf(o.k, key) > 0
  THEN Obj(o.k, [o.v EXCEPT ![IndexOf(o.k, key)] = val])
  ELSE Obj(Append(o.k, key), Append(o.v, val))

\* x.key for a value x that is neither null nor undefined.  Only the own
\* keys of an object are looked at; every other value has no such property.
GetProp(x, key) ==
  IF HasKey(x, key) THEN x.v[IndexOf(x.k, key)] ELSE Undefined

\* JavaScript truthiness.
Truthy(x) ==
  CASE x.t = "undefined" -> FALSE
    [] x.t = "null"      -> FALSE
    [] x.t = "string"    -> x.s # ""
    [] x.t = "number"    -> x.n # 0
    [] x.t = "boolean"   -> x.b
    [] OTHER             -> TRUE

(***************************************************************************)
(* JSON.parse, as a recursive-descent parser over the text.  The grammar   *)
(* is JSON without escape sequences in strings and with unsigned integers  *)
(* as the only numbers; blanks between tokens are skipped.                 *)
(***************************************************************************)
Digits == <<"0", "1", "2", "3", "4", "5", "6", "7", "8", "9">>

IsDigit(c) == \E i \in 1..10 : Digits[i] = c

DigitVal(c) == (CHOOSE i \in 1..10 : Digits[i] = c) - 1

StartsWith(s, p) == Len(s) >= Len(p) /\ SubSeq(s, 1, Len(p)) = p

Drop(s, n) == SubSeq(s, n + 1, Len(s))

Fail == [ok |-> FALSE]

RECURSIVE SkipWs(_)
SkipWs(s) == IF s # "" /\ Head(s) = " " THEN SkipWs(Tail(s)) ELSE s

\* The characters of a string literal after its opening quote: acc is what
\* was read so far.
RECURSIVE ScanString(_, _)
ScanString(s, acc) ==
  IF s = "" THEN Fail
  ELSE IF Head(s) = "\"" THEN [ok |-> TRUE, v |-> acc, rest |-> Tail(s)]
  ELSE IF Head(s) = "\\" THEN Fail
  ELSE ScanString(Tail(s), acc \o Head(s))

RECURSIVE ScanDigits(_, _)
ScanDigits(s, acc) ==
  IF s # "" /\ IsDigit(Head(s))
  THEN ScanDigits(Tail(s), 10 * acc + DigitVal(Head(s)))
  ELSE [ok |-> TRUE, v |-> Num(acc), rest |-> s]

RECURSIVE ParseValue(_)
RECURSIVE ParseElements(_, _)
RECURSIVE ParseMembers(_, _)

ParseValue(s0) ==
  LET s == SkipWs(s0) IN
  IF s = "" THEN Fail
  ELSE IF StartsWith(s, "null") THEN [ok |-> TRUE, v |-> Null, rest |-> Drop(s, 4)]
  ELSE IF StartsWith(s, "true") THEN [ok |-> TRUE, v |-> Bool(TRUE), rest |-> Drop(s, 4)]
  ELSE IF StartsWith(s, "false") THEN [ok |-> TRUE, v |-> Bool(FALSE), rest |-> Drop(s, 5)]
  ELSE IF Head(s) = "\"" THEN
    LET r == ScanString(Tail(s), "") IN
    IF r.ok THEN [ok |-> TRUE, v |-> Str(r.v), rest |-> r.rest] ELSE Fail
  ELSE IF Head(s) = "0" THEN [ok |-> TRUE, v |-> Num(0), rest |-> Tail(s)]
  ELSE IF IsDigit(Head(s)) THEN ScanDigits(s, 0)
  ELSE IF Head(s) = "[" THEN
    IF StartsWith(SkipWs(Tail(s)), "]")
    THEN [ok |-> TRUE, v |-> Arr(<<>>), rest |-> Tail(SkipWs(Tail(s)))]
    ELSE ParseElements(Tail(s), <<>>)
  ELSE IF Head(s) = "{" THEN
    IF StartsWith(SkipWs(Tail(s)), "}")
    THEN [ok |-> TRUE, v |-> EmptyObj, rest |-> Tail(SkipWs(Tail(s)))]
    ELSE ParseMembers(Tail(s), EmptyObj)
  ELSE Fail

\* value (',' value)* ']' : acc holds the elements read so far.
ParseElements(s, acc) ==
  LET r == ParseValue(s) IN
  IF ~r.ok THEN Fail
  ELSE LET t == SkipWs(r.rest) IN
    IF StartsWith(t, ",") THEN ParseElements(Tail(t), Append(acc, r.v))
    ELSE IF StartsWith(t, "]")
    THEN [ok |-> TRUE, v |-> Arr(Append(acc, r.v)), rest |-> Tail(t)]
    ELSE Fail

\* string ':' value (',' string ':' value)* '}' : acc is the object so far.
ParseMembers(s0, acc) ==
  LET s == SkipWs(s0) IN
  IF ~StartsWith(s, "\"") THEN Fail
  ELSE LET key == ScanString(Tail(s), "") IN
    IF ~key.ok THEN Fail
    ELSE LET c == SkipWs(key.rest) IN
      IF ~StartsWith(c, ":") THEN Fail
      ELSE LET r == ParseValue(Tail(c)) IN
        IF ~r.ok THEN Fail
        ELSE LET t == SkipWs(r.rest)
                 o == SetKey(acc, key.v, r.v) IN
          IF StartsWith(t, ",") THEN ParseMembers(Tail(t), o)
          ELSE IF StartsWith(t, "}") THEN [ok |-> TRUE, v |-> o, rest |-> Tail(t)]
          ELSE Fail

\* JSON.parse(text): ok is FALSE where JSON.parse throws a SyntaxError.
JSONParse(text) ==
  LET r == ParseValue(text) IN
  IF r.ok /\ SkipWs(r.rest) = "" THEN [ok |-> TRUE, v |-> r.v] ELSE Fail

(***************************************************************************)
(* String conversion, Array.prototype.join, JSON serialization             *)
(***************************************************************************)
RECURSIVE JSString(_)
RECURSIVE JoinFrom(_, _, _)

\* a.join(sep) from index i on: null and undefined elements give "".
JoinFrom(a, sep, i) ==
  IF i > Len(a) THEN ""
  ELSE (IF i > 1 THEN sep ELSE "")
       \o (IF a[i].t \in {"null", "undefined"} THEN "" ELSE JSString(a[i]))
       \o JoinFrom(a, sep, i + 1)

Join(a, sep) == JoinFrom(a, sep, 1)

\* String(x), as a template literal or a string concatenation converts x.
JSString(x) ==
  CASE x.t = "undefined" -> "undefined"
    [] x.t = "null"      -> "null"
    [] x.t = "string"    -> x.s
    [] x.t = "number"    -> ToString(x.n)
    [] x.t = "boolean"   -> IF x.b THEN "true" ELSE "false"
    [] x.t = "array"     -> Join(x.a, ",")
    [] OTHER             -> "[object Object]"

\* The indices 1..n as a sequence.
Indices(n) == [i \in 1..n |-> i]

\* What JSON serialization keeps of a value: an undefined array element
\* becomes null and an undefined property is dropped.
RECURSIVE Serialized(_)
Serialized(x) ==
  CASE x.t = "array"  -> Arr([i \in 1..Len(x.a) |->
                              IF x.a[i].t = "undefined" THEN Null
                              ELSE Serialized(x.a[i])])
    [] x.t = "object" ->
         LET kept == SelectSeq(Indices(Len(x.k)), LAMBDA i : x.v[i].t # "undefined")
         IN Obj([j \in 1..Len(kept) |-> x.k[kept[j]]],
                [j \in 1..Len(kept) |-> Serialized(x.v[kept[j]])])
    [] OTHER          -> x

\* The own enumerable entries of a value, as an object: the keys of an
\* object, the indices of an array or of a string; nothing for any other.
Entries(source) ==
  CASE source.t = "object" -> source
    [] source.t = "array"  ->
         Obj([i \in 1..Len(source.a) |-> ToString(i - 1)], source.a)
    [] source.t = "string" ->
         Obj([i \in 1..Len(source.s) |-> ToString(i - 1)],
             [i \in 1..Len(source.s) |-> Str(SubSeq(source.s, i, i))])
    [] OTHER               -> EmptyObj

\* { ...target, ...source }: a key of the target keeps its position and
\* takes the source's value; the other keys of the source follow.
Spread(source, target) ==
  LET e == Entries(source)
      added == SelectSeq(e.k, LAMBDA key : IndexOf(target.k, key) = 0)
  IN Obj(target.k \o added,
         [i \in 1..Len(target.k) |->
            IF IndexOf(e.k, target.k[i]) > 0 THEN e.v[IndexOf(e.k, target.k[i])]
            ELSE target.v[i]]
         \o [j \in 1..Len(added) |-> e.v[IndexOf(e.k, added[j])]])

(***************************************************************************)
(* Errors and promises                                                     *)
(***************************************************************************)
Error(name, message) == [name |-> name, message |-> message]

\* String(error) of an Error object.
ErrorString(e) == e.name \o ": " \o e.message

Pending      == [st |-> "pending"]
Fulfilled(v) == [st |-> "fulfilled", value |-> v]
Rejected(e)  == [st |-> "rejected", reason |-> e]
NotCalled    == [st |-> "none"]

(***************************************************************************)
(* callOpenAI                                                              *)
(***************************************************************************)
NotConfigured ==
  "OpenAI API key not configured. Please set OPENAI_API_KEY environment variable."

NoResponseGenerated == "No response generated"

\* What the runtime reports for failures inside callOpenAI's try block.
SyntaxErrorMessage == "Unexpected token in JSON"
NullReadMessage(of, key) ==
  "Cannot read properties of " \o of \o " (reading '" \o key \o "')"

\* x?.key
OptProp(x, key) == IF x.t \in {"null", "undefined"} THEN Undefined ELSE GetProp(x, key)

\* a[0]
First(x) == IF x.t = "array" /\ Len(x.a) > 0 THEN x.a[1] ELSE GetProp(x, "0")

\* An outcome of fetch and of reading the body:
\*   [fetch |-> "rejects", message |-> m]          fetch throws (transport)
\*   [fetch |-> "resolves", ok |-> b, json |-> r]  a response with response.ok = b
\*       whose response.json() gives r.v, or throws a SyntaxError if ~r.ok.
\* The message of the error thrown inside the try block of callOpenAI, or
\* the returned content: [threw |-> TRUE, message] or [threw |-> FALSE, value].
Threw(m)    == [threw |-> TRUE, message |-> m]
Returned(v) == [threw |-> FALSE, value |-> v]

callOpenAI_try(o) ==
  IF o.fetch = "rejects" THEN Threw(o.message)
  ELSE IF ~o.json.ok THEN Threw(SyntaxErrorMessage)
  ELSE IF ~o.ok THEN
    LET error == o.json.v IN
    IF error.t = "null" THEN Threw(NullReadMessage("null", "error"))
    ELSE LET m == OptProp(GetProp(error, "error"), "message") IN
      Threw(IF Truthy(m) THEN JSString(m) ELSE "OpenAI API error")
  ELSE
    LET data == o.json.v IN
    IF data.t = "null" THEN Threw(NullReadMessage("null", "choices"))
    ELSE LET choices == GetProp(data, "choices") IN
      IF choices.t \in {"null", "undefined"}
      THEN Threw(NullReadMessage(choices.t, "0"))
      ELSE LET content == OptProp(OptProp(First(choices), "message"), "content") IN
        \* the chat completions schema: content is a string or null
        Returned(IF Truthy(content) THEN content.s ELSE NoResponseGenerated)

\* callOpenAI with a catch block that returns a fixed text, without the
\* message of the error.
callOpenAI_noMessage(o) ==
  LET r == callOpenAI_try(o) IN
  IF r.threw THEN Fulfilled("API Error") ELSE Fulfilled(r.value)

\* callOpenAI with a catch block that never returns: the promise of a call
\* whose try block threw stays pending.
callOpenAI_hangs(o) ==
  LET r == callOpenAI_try(o) IN
  IF r.threw THEN Pending ELSE Fulfilled(r.value)

\* The value callOpenAI's promise settles with, once fetch has outcome o:
\* every error of the try block is caught and returned as text.
callOpenAI(o) ==
  LET r == callOpenAI_try(o) IN
  IF r.threw THEN Fulfilled("API Error: " \o r.message) ELSE Fulfilled(r.value)

\* callOpenAI throwing, outside its try block, when no API key is set.
callOpenAI_start_throws(key) ==
  IF ~key THEN Rejected(Error("Error", "OPENAI_API_KEY is not set")) ELSE Pending

\* The promise callOpenAI returns when it is called: without an API key it
\* returns at once, otherwise it suspends on fetch.
callOpenAI_start(key) == IF ~key THEN Fulfilled(NotConfigured) ELSE Pending

(***************************************************************************)
(* generateSubQuestions                                                    *)
(***************************************************************************)
SubQuestion(question, relevance) ==
  Obj(<<"question", "relevance">>, <<Str(question), Str(relevance)>>)

DecomposePrompt ==
  "You are a research analyst. Break down the following question into 3-5 specific sub-questions that would help thoroughly answer it. Focus on different aspects, perspectives, and dimensions."
  \o "\n\nReturn a JSON array of objects with \"question\" and \"relevance\" fields."

FallbackSubQuestions(mainQuestion) ==
  << SubQuestion("What is " \o mainQuestion \o "?", "Definition and context"),
     SubQuestion("What are the key aspects of " \o mainQuestion \o "?", "Core components"),
     SubQuestion("What are the implications of " \o mainQuestion \o "?",
                 "Impact and consequences") >>

\* generateSubQuestions with a catch block that returns no sub-question.
generateSubQuestions_noFallback(mainQuestion, p) ==
  IF p.st = "rejected" THEN <<>>
  ELSE LET parsed == JSONParse(p.value) IN
    IF ~parsed.ok THEN <<>>
    ELSE IF parsed.v.t = "array" THEN parsed.v.a ELSE <<>>

\* What generateSubQuestions returns once its callOpenAI promise p has
\* settled: the elements of the parsed array, nothing for any other JSON
\* value, the fallback if the call or JSON.parse threw.
generateSubQuestions(mainQuestion, p) ==
  IF p.st = "rejected" THEN FallbackSubQuestions(mainQuestion)
  ELSE LET parsed == JSONParse(p.value) IN
    IF ~parsed.ok THEN FallbackSubQuestions(mainQuestion)
    ELSE IF parsed.v.t = "array" THEN parsed.v.a ELSE <<>>

\* subQuestions.map(sq => sq.question): reading a property of null throws.
QuestionsOf(subQuestions) ==
  IF \E i \in 1..Len(subQuestions) : subQuestions[i].t \in {"null", "undefined"}
  THEN Threw(NullReadMessage("null", "question"))
  ELSE Returned([i \in 1..Len(subQuestions) |-> GetProp(subQuestions[i], "question")])

(***************************************************************************)
(* queryAllEngines                                                         *)
(***************************************************************************)
EngineNames ==
  <<"OpenAI Deep Research", "Perplexity Deep Research", "Kimi K2", "Gemini 2.5 Pro">>

\* The system prompts of queryOpenAIDeepResearch, queryPerplexityDeepResearch,
\* queryKimiK2 and queryGemini25Pro, in the order of the queries array.
EnginePrompts ==
  << "You are OpenAI's Deep Research engine. Provide comprehensive, evidence-based research findings with citations and confidence levels. Focus on accuracy and nuance.",
     "You are Perplexity's Deep Research engine. Provide real-time, well-sourced answers with clear citations. Emphasize recent developments and multiple perspectives.",
     "You are Kimi K2, a deep reasoning research engine. Provide thorough analytical insights with logical reasoning chains and evidence evaluation.",
     "You are Gemini 2.5 Pro with advanced research capabilities. Provide comprehensive analysis with multimodal understanding and extensive context processing." >>

NumEngines == Len(EngineNames)

\* [mainQuestion, ...questions].join('\n\n')
allQuestions(mainQuestion, questions) ==
  Join(<<Str(mainQuestion)>> \o questions, "\n\n")

\* Promise.race in place of Promise.allSettled: resolved with the first
\* query that settles.
allSettled_race(queries) ==
  \E i \in 1..Len(queries) : queries[i].st \in {"fulfilled", "rejected"}

\* Promise.allSettled(queries) has resolved.
allSettled(queries) ==
  \A i \in 1..Len(queries) : queries[i].st \in {"fulfilled", "rejected"}

\* The entry built from one settled result.
ResultText(result) ==
  IF result.st = "fulfilled" THEN result.value
  ELSE "Error: " \o (IF result.st = "rejected" THEN ErrorString(result.reason)
                     ELSE "undefined")

\* queryAllEngines with the third name written again for the fourth entry:
\* the last result overwrites the third and one key is missing.
queryAllEngines_duplicateKey(results) ==
  Obj(SubSeq(EngineNames, 1, 3),
      <<Str(ResultText(results[1])), Str(ResultText(results[2])),
        Str(ResultText(results[4]))>>)

\* queryAllEngines with the first two results read in the other order.
queryAllEngines_swapped(results) ==
  Obj(EngineNames,
      <<Str(ResultText(results[2])), Str(ResultText(results[1])),
        Str(ResultText(results[3])), Str(ResultText(results[4]))>>)

\* The object queryAllEngines returns: results[i] goes under the i-th name.
queryAllEngines(results) ==
  Obj(EngineNames, [i \in 1..NumEngines |-> Str(ResultText(results[i]))])

(***************************************************************************)
(* synthesizeReport                                                        *)
(***************************************************************************)
RECURSIVE NumberedFrom(_, _)
\* subQuestions.map((sq, idx) => ...): the numbered lines, from index i.
NumberedFrom(questions, i) ==
  IF i > Len(questions) THEN <<>>
  ELSE <<Str(ToString(i) \o ". " \o JSString(questions[i]))>>
       \o NumberedFrom(questions, i + 1)

\* Tool sections that leave out the text of an engine whose call failed.
ToolSections_hideErrors(toolResponses) ==
  [i \in 1..Len(toolResponses.k) |->
     Str("\n=== " \o toolResponses.k[i] \o " ===\n"
         \o (IF Len(JSString(toolResponses.v[i])) >= 10
                 /\ SubSeq(JSString(toolResponses.v[i]), 1, 10) = "API Error:"
             THEN "(no answer)" ELSE JSString(toolResponses.v[i]))
         \o "\n")]

\* Object.entries(toolResponses).map(([tool, response]) => ...)
ToolSections(toolResponses) ==
  [i \in 1..Len(toolResponses.k) |->
     Str("\n=== " \o toolResponses.k[i] \o " ===\n"
         \o JSString(toolResponses.v[i]) \o "\n")]

SynthesisRules ==
  "Your task is to synthesize these findings into a comprehensive master report. Follow these rules:\n"
  \o "1. DO NOT copy tool responses directly - synthesize and integrate\n"
  \o "2. Identify consensus (what all/most tools agree on)\n"
  \o "3. Highlight disagreements or conflicting information explicitly\n"
  \o "4. Mark uncertain or conflicting data with [UNCERTAIN] or [CONFLICTING] tags\n"
  \o "5. Provide evidence-based analysis with clear reasoning\n"
  \o "6. Structure output into these sections:\n"
  \o "   - Executive Summary (2-3 paragraphs)\n"
  \o "   - Key Findings by Theme (organized by topic, not by tool)\n"
  \o "   - Tool Comparison (where tools agree/disagree, with specifics)\n"
  \o "   - Risks & Uncertainties (what's unclear, conflicting, or speculative)\n"
  \o "   - Recommendations (actionable next steps)\n\n"
  \o "Return a JSON object with these keys: executiveSummary, keyFindings, toolComparison, risksUncertainties, recommendations. Use markdown formatting within each field."

synthesisPrompt(mainQuestion, questions, toolResponses) ==
  "You are a master research synthesizer. You have received responses from multiple AI research engines about the following question:\n\n"
  \o "MAIN QUESTION: " \o mainQuestion \o "\n\n"
  \o "SUB-QUESTIONS:\n" \o Join(NumberedFrom(questions, 1), "\n") \o "\n\n"
  \o "TOOL RESPONSES:\n" \o Join(ToolSections(toolResponses), "\n") \o "\n\n"
  \o SynthesisRules

SynthesisUserMessage == "Generate the master report now."

ReportKeys ==
  <<"executiveSummary", "keyFindings", "toolComparison", "risksUncertainties",
    "recommendations">>

SummaryLength == 500

\* s.substring(0, n)
Substring0(s, n) == SubSeq(s, 1, IF Len(s) < n THEN Len(s) ELSE n)

\* A hand-structured report that keeps only the summarized part of the text.
ManualReport_truncated(synthesis) ==
  Obj(ReportKeys \o <<"fullSynthesis">>,
      << Str(Substring0(synthesis, SummaryLength) \o "..."),
         Str("See full synthesis below"),
         Str("Multiple tools were queried"),
         Str("Various uncertainties exist in the research"),
         Str("Further investigation recommended"),
         Str(Substring0(synthesis, SummaryLength)) >>)

\* The report structured by hand from a synthesis that is not JSON.
ManualReport(synthesis) ==
  Obj(ReportKeys \o <<"fullSynthesis">>,
      << Str(Substring0(synthesis, SummaryLength) \o "..."),
         Str("See full synthesis below"),
         Str("Multiple tools were queried"),
         Str("Various uncertainties exist in the research"),
         Str("Further investigation recommended"),
         Str(synthesis) >>)

\* The report of the outer catch block.
FailedReport(error) ==
  Obj(ReportKeys,
      << Str("Synthesis failed: " \o error.message),
         Str("Unable to synthesize findings"),
         Str("Error during synthesis"),
         Str("Synthesis error"),
         Str("Please try again") >>)

\* A synthesizeReport that structures every synthesis by hand.
synthesizeReport_byHand(p) ==
  IF p.st = "rejected" THEN FailedReport(p.reason) ELSE ManualReport(p.value)

\* What synthesizeReport returns once its callOpenAI promise p has settled.
synthesizeReport(p) ==
  IF p.st = "rejected" THEN FailedReport(p.reason)
  ELSE LET parsed == JSONParse(p.value) IN
    IF parsed.ok THEN parsed.v ELSE ManualReport(p.value)

(***************************************************************************)
(* POST                                                                    *)
(***************************************************************************)
NextResponse(body, status) == [status |-> status, body |-> Serialized(body)]

ErrorBody(message) == Obj(<<"error">>, <<Str(message)>>)

\* { subQuestions: ..., toolResponses: toolResponses, ...masterReport }
SuccessBody_reportLast(masterReport, questions, toolResponses) ==
  Spread(masterReport,
         Obj(<<"subQuestions", "toolResponses">>, <<Arr(questions), toolResponses>>))

\* { ...masterReport, subQuestions: ..., toolResponses: toolResponses }
SuccessBody(masterReport, questions, toolResponses) ==
  SetKey(SetKey(Spread(masterReport, EmptyObj), "subQuestions", Arr(questions)),
         "toolResponses", toolResponses)

\* The catch block of POST: error.message || 'Internal server error'.
InternalError(message) ==
  NextResponse(ErrorBody(IF message # "" THEN message ELSE "Internal server error"), 500)

\* const { question } = await request.json(), for a body that parsed to b.
QuestionOf(b) == GetProp(b, "question")

\* !question || typeof question !== 'string'
InvalidQuestion(q) == ~Truthy(q) \/ q.t # "string"

(***************************************************************************)
(* The environment: request bodies and what the upstream API answers       *)
(***************************************************************************)
\* Texts of request bodies; request.json() parses them.
RequestBodies ==
  { "",
    "null",
    "{}",
    "\"What causes tidal locking?\"",
    "{\"question\":\"\"}",
    "{\"question\":null}",
    "{\"question\":42}",
    "{\"question\":[\"What causes tidal locking?\"]}",
    "{\"question\":\"What causes tidal locking?\"}",
    "{\"question\":\"Is P equal to NP?\",\"depth\":2}" }

FetchRejects(message) == [fetch |-> "rejects", message |-> message]
HttpResponse(ok, text) == [fetch |-> "resolves", ok |-> ok, json |-> JSONParse(text)]
NoFetch == [fetch |-> "none"]

\* A chat completion whose first choice has the given content.
Completion(content) ==
  [fetch |-> "resolves", ok |-> TRUE,
   json |-> [ok |-> TRUE,
             v |-> Obj(<<"id", "choices">>,
                       <<Str("chatcmpl-1"),
                         Arr(<<Obj(<<"index", "message">>,
                                   <<Num(0),
                                     Obj(<<"role", "content">>,
                                         <<Str("assistant"), content>>)>>)>>)>>)]]

\* Failures of the call: transport, an error status with and without a
\* message, bodies that are not what the code reads.
TransportFailure == FetchRejects("fetch failed")
RateLimited == HttpResponse(FALSE, "{\"error\":{\"message\":\"Rate limit reached\"}}")
FailedCalls ==
  { TransportFailure,
    RateLimited,
    HttpResponse(FALSE, "{}"),
    HttpResponse(TRUE, "{}") }

\* Decomposition answers that are JSON text.
DecompositionJSON ==
  { "[{\"question\":\"What is tidal locking?\",\"relevance\":\"Definition\"},"
      \o "{\"question\":\"Which bodies are tidally locked?\",\"relevance\":\"Examples\"},"
      \o "{\"question\":\"How long does locking take?\",\"relevance\":\"Timescale\"}]",
    "[]",
    "{}",
    "[null]",
    "[{\"relevance\":\"Definition\"}]" }

\* Decomposition answers that are not JSON text.
DecompositionProse ==
  { "Here are the sub-questions:\n1. What is tidal locking?",
    "" }

DecompositionTexts == DecompositionJSON \cup DecompositionProse

DecompositionOutcomes ==
  {Completion(Str(t)) : t \in DecompositionTexts} \cup {Completion(Null)} \cup FailedCalls

EngineTexts == {"Tidal forces synchronize rotation."}

EngineOutcomes ==
  {Completion(Str(t)) : t \in EngineTexts} \cup {TransportFailure, RateLimited}

RECURSIVE Repeat(_, _)
Repeat(s, n) == IF n = 0 THEN "" ELSE s \o Repeat(s, n - 1)

\* How many sentences the long synthesis answer has: enough to pass
\* SummaryLength characters.
LongAnswerSentences == 40

FiveKeyReport ==
  "{\"executiveSummary\":\"Tidal locking is common.\",\"keyFindings\":\"- torque\","
  \o "\"toolComparison\":\"All agree\",\"risksUncertainties\":\"[UNCERTAIN] timescale\","
  \o "\"recommendations\":\"Read more\"}"

\* Synthesis answers that are JSON text.
SynthesisJSON ==
  { FiveKeyReport,
    "{\"executiveSummary\":\"\",\"keyFindings\":null,\"toolComparison\":3,"
      \o "\"risksUncertainties\":[],\"recommendations\":{}}",
    "{\"executiveSummary\":\"Summary\",\"subQuestions\":[\"forged\"],"
      \o "\"toolResponses\":{\"Kimi K2\":\"forged\"},\"error\":\"none\"}",
    "{}",
    "null" }

\* Synthesis answers that are not JSON text.
SynthesisProse ==
  { "## Executive Summary\nTidal locking is common.",
    Repeat("Tidal locking. ", LongAnswerSentences),
    "" }

SynthesisTexts == SynthesisJSON \cup SynthesisProse

SynthesisOutcomes ==
  {Completion(Str(t)) : t \in SynthesisTexts} \cup {Completion(Null)} \cup FailedCalls

(***************************************************************************)
(* State                                                                   *)
(***************************************************************************)
VARIABLES
  apiKey,         \* process.env.OPENAI_API_KEY is set
  request,        \* what request.json() gives: [ok, v], ~ok if it throws
  pc,             \* where POST is: "start", the stage it awaits, or "done"
  question,       \* POST's question
  subQuestions,   \* POST's subQuestions
  toolResponses,  \* POST's toolResponses
  masterReport,   \* POST's masterReport
  decomposition,  \* the promise of generateSubQuestions' callOpenAI
  queries,        \* the promises of the queries array of queryAllEngines
  synthesis,      \* the promise of synthesizeReport's callOpenAI
  calls,          \* every callOpenAI invocation so far, in order
  fetched,        \* the outcome each call's fetch had, [fetch |-> "none"] before
  response,       \* the response POST returned, status 0 before
  home,           \* the state of the page component Home:
                  \* [question, report, loading, error]
  submit          \* the run of handleSubmit: where it is ("idle" between
                  \* runs, "fetch", "json"), the question it sent and the
                  \* outcome its fetch had

\* The variables of the page component.
pageVars == <<home, submit>>

vars == <<apiKey, request, pc, question, subQuestions, toolResponses, masterReport,
          decomposition, queries, synthesis, calls, fetched, response, home, submit>>

Call(systemPrompt, userMessage) ==
  [systemPrompt |-> systemPrompt, userMessage |-> userMessage]

NoResponse == [status |-> 0]

Init ==
  /\ apiKey \in BOOLEAN
  /\ request \in {JSONParse(b) : b \in RequestBodies}
  /\ pc = "start"
  /\ question = ""
  /\ subQuestions = <<>>
  /\ toolResponses = Undefined
  /\ masterReport = Undefined
  /\ decomposition = NotCalled
  /\ queries = [i \in 1..NumEngines |-> NotCalled]
  /\ synthesis = NotCalled
  /\ calls = <<>>
  /\ fetched = [decomposition |-> NoFetch,
                queries |-> [i \in 1..NumEngines |-> NoFetch],
                synthesis |-> NoFetch]
  /\ response = NoResponse
  /\ home = [question |-> "", report |-> Null, loading |-> FALSE, error |-> ""]
  /\ submit = [at |-> "idle", question |-> "", outcome |-> NoFetch]

Respond(r) ==
  /\ response' = r
  /\ pc' = "done"

\* POST from its start to its first suspension: the body is read and the
\* question validated; generateSubQuestions calls callOpenAI.
POST_start ==
  /\ pc = "start"
  /\ IF ~request.ok THEN
       /\ Respond(InternalError(SyntaxErrorMessage))
       /\ UNCHANGED <<question, decomposition, calls>>
     ELSE IF request.v.t = "null" THEN
       /\ Respond(InternalError("Cannot destructure property 'question' of null"))
       /\ UNCHANGED <<question, decomposition, calls>>
     ELSE IF InvalidQuestion(QuestionOf(request.v)) THEN
       /\ Respond(NextResponse(ErrorBody("Valid question is required"), 400))
       /\ UNCHANGED <<question, decomposition, calls>>
     ELSE
       /\ question' = QuestionOf(request.v).s
       /\ calls' = Append(calls, Call(DecomposePrompt, question'))
       /\ decomposition' = callOpenAI_start(apiKey)
       /\ pc' = "generateSubQuestions"
       /\ UNCHANGED response
  /\ UNCHANGED <<apiKey, request, subQuestions, toolResponses, masterReport,
                 queries, synthesis, fetched>>
  /\ UNCHANGED pageVars

\* The fetch of the decomposition call settles.
DecompositionSettles ==
  /\ decomposition.st = "pending"
  /\ \E o \in DecompositionOutcomes :
       /\ decomposition' = callOpenAI(o)
       /\ fetched' = [fetched EXCEPT !.decomposition = o]
  /\ UNCHANGED <<apiKey, request, pc, question, subQuestions, toolResponses,
                 masterReport, queries, synthesis, calls, response>>
  /\ UNCHANGED pageVars

\* generateSubQuestions returns; queryAllEngines builds allQuestions and
\* calls the four query functions, then awaits Promise.allSettled.
POST_queryAllEngines ==
  /\ pc = "generateSubQuestions"
  /\ decomposition.st \in {"fulfilled", "rejected"}
  /\ subQuestions' = generateSubQuestions(question, decomposition)
  /\ LET qs == QuestionsOf(subQuestions') IN
     IF qs.threw THEN
       /\ Respond(InternalError(qs.message))
       /\ UNCHANGED <<queries, calls>>
     ELSE
       /\ calls' = calls \o [i \in 1..NumEngines |->
                               Call(EnginePrompts[i], allQuestions(question, qs.value))]
       /\ queries' = [i \in 1..NumEngines |-> callOpenAI_start(apiKey)]
       /\ pc' = "queryAllEngines"
       /\ UNCHANGED response
  /\ UNCHANGED <<apiKey, request, question, toolResponses, masterReport,
                 decomposition, synthesis, fetched>>
  /\ UNCHANGED pageVars

\* The fetch of the i-th engine call settles.
EngineSettles(i) ==
  /\ queries[i].st = "pending"
  /\ \E o \in EngineOutcomes :
       /\ queries' = [queries EXCEPT ![i] = callOpenAI(o)]
       /\ fetched' = [fetched EXCEPT !.queries[i] = o]
  /\ UNCHANGED <<apiKey, request, pc, question, subQuestions, toolResponses,
                 masterReport, decomposition, synthesis, calls, response>>
  /\ UNCHANGED pageVars

\* Promise.allSettled resolves; queryAllEngines returns its object;
\* synthesizeReport builds its prompt and calls callOpenAI.
POST_synthesizeReport ==
  /\ pc = "queryAllEngines"
  /\ allSettled(queries)
  /\ toolResponses' = queryAllEngines(queries)
  /\ calls' = Append(calls,
                Call(synthesisPrompt(question, QuestionsOf(subQuestions).value,
                                     toolResponses'),
                     SynthesisUserMessage))
  /\ synthesis' = callOpenAI_start(apiKey)
  /\ pc' = "synthesizeReport"
  /\ UNCHANGED <<apiKey, request, question, subQuestions, masterReport,
                 decomposition, queries, fetched, response>>
  /\ UNCHANGED pageVars

\* The fetch of the synthesis call settles.
SynthesisSettles ==
  /\ synthesis.st = "pending"
  /\ \E o \in SynthesisOutcomes :
       /\ synthesis' = callOpenAI(o)
       /\ fetched' = [fetched EXCEPT !.synthesis = o]
  /\ UNCHANGED <<apiKey, request, pc, question, subQuestions, toolResponses,
                 masterReport, decomposition, queries, calls, response>>
  /\ UNCHANGED pageVars

\* synthesizeReport returns and POST answers.
POST_respond ==
  /\ pc = "synthesizeReport"
  /\ synthesis.st \in {"fulfilled", "rejected"}
  /\ \E report \in {synthesizeReport(synthesis)} :
       \E body \in {SuccessBody(report, QuestionsOf(subQuestions).value, toolResponses)} :
         /\ masterReport' = report
         /\ Respond(NextResponse(body, 200))
  /\ UNCHANGED <<apiKey, request, question, subQuestions, toolResponses,
                 decomposition, queries, synthesis, calls, fetched>>
  /\ UNCHANGED pageVars

Next ==
  \/ POST_start
  \/ DecompositionSettles
  \/ POST_queryAllEngines
  \/ \E i \in 1..NumEngines : EngineSettles(i)
  \/ POST_synthesizeReport
  \/ SynthesisSettles
  \/ POST_respond

Spec == Init /\ [][Next]_vars

\* The fetch of some callOpenAI call settles.
Settles ==
  \/ DecompositionSettles
  \/ \E i \in 1..NumEngines : EngineSettles(i)
  \/ SynthesisSettles

\* A step of POST itself, from one suspension to the next.
PostStep ==
  \/ POST_start
  \/ POST_queryAllEngines
  \/ POST_synthesizeReport
  \/ POST_respond

\* POST has not returned and no promise it awaits is pending: its next step
\* is ready to run.
CanResume ==
  /\ pc # "done"
  /\ decomposition.st # "pending"
  /\ synthesis.st # "pending"
  /\ \A i \in 1..NumEngines : queries[i].st # "pending"

\* Every call that was made eventually settles, and the event loop runs the
\* next step of POST once it is ready: weak fairness of PostStep, with the
\* states in which PostStep is enabled written out as CanResume.
Fairness ==
  /\ WF_vars(Settles)
  /\ <>[]CanResume => []<><<PostStep>>_vars

FairSpec == Spec /\ Fairness

(***************************************************************************)
(* The page component Home (src/unnamed/part_000): the form that posts the *)
(* question to /api/research and shows the report or the error.            *)
(***************************************************************************)
\* The variables of the route, which no step of the page changes.
routeVars == <<apiKey, request, pc, question, subQuestions, toolResponses,
               masterReport, decomposition, queries, synthesis, calls, fetched,
               response>>

\* What the textarea can hold.
PageQuestions == {"", " ", "What causes tidal locking?", "Is P equal to NP?"}

\* Responses of POST to the body {question: q} sent by the page: the report
\* of a run without API key, a report parsed from the synthesis JSON, and
\* the 500 response of a run that threw.
RouteResponses(q) ==
  { NextResponse(SuccessBody(ManualReport(NotConfigured),
                             QuestionsOf(FallbackSubQuestions(q)).value,
                             queryAllEngines([i \in 1..NumEngines |->
                                                Fulfilled(NotConfigured)])),
                 200),
    NextResponse(SuccessBody(JSONParse(FiveKeyReport).v,
                             QuestionsOf(FallbackSubQuestions(q)).value,
                             queryAllEngines([i \in 1..NumEngines |->
                                                Fulfilled("Tidal forces synchronize rotation.")])),
                 200),
    InternalError(NullReadMessage("null", "question")) }

\* The Response fetch resolves with for the response r of POST.
RouteAnswer(r) ==
  [fetch |-> "resolves", ok |-> r.status \in 200..299,
   json |-> [ok |-> TRUE, v |-> r.body]]

\* What fetch('/api/research') can give for the question q: a failure of the
\* transport, a response of POST, or an error response of the platform in
\* front of it, whose body is not JSON or is JSON without an error key.
PageFetchOutcomes(q) ==
  {FetchRejects("Failed to fetch")}
    \cup {RouteAnswer(r) : r \in RouteResponses(q)}
    \cup {HttpResponse(FALSE, "<html>Gateway Timeout</html>"), HttpResponse(FALSE, "{}")}

\* A handleSubmit that does not call setReport(null) at its start.
handleSubmit_begin_keepsReport(h) == [h EXCEPT !.loading = TRUE, !.error = ""]

\* setLoading(true); setError(''); setReport(null)
handleSubmit_begin(h) == [h EXCEPT !.loading = TRUE, !.error = "", !.report = Null]

\* What the try block of handleSubmit does with the response o once its body
\* was read: it throws, or it has the data for setReport.
handleSubmit_try(o) ==
  IF ~o.json.ok THEN Threw(SyntaxErrorMessage)
  ELSE IF ~o.ok THEN
    LET errorData == o.json.v IN
    IF errorData.t \in {"null", "undefined"}
    THEN Threw(NullReadMessage(errorData.t, "error"))
    ELSE Threw(IF Truthy(GetProp(errorData, "error"))
               THEN JSString(GetProp(errorData, "error"))
               ELSE "Research failed")
  ELSE Returned(o.json.v)

\* catch (err) { setError(err.message || 'An error occurred') }, then finally.
handleSubmit_catch(h, message) ==
  [h EXCEPT !.error = IF message # "" THEN message ELSE "An error occurred",
            !.loading = FALSE]

\* setReport(data), then finally.
handleSubmit_done(h, data) == [h EXCEPT !.report = data, !.loading = FALSE]

\* onChange of the textarea.
setQuestion(q) ==
  /\ home' = [home EXCEPT !.question = q]
  /\ UNCHANGED submit
  /\ UNCHANGED routeVars

\* The form is submitted: the button is enabled and the required textarea
\* is not empty.  handleSubmit runs up to await fetch(...).
handleSubmit_start ==
  /\ ~home.loading
  /\ home.question # ""
  /\ home' = handleSubmit_begin(home)
  /\ submit' = [at |-> "fetch", question |-> home.question, outcome |-> NoFetch]
  /\ UNCHANGED routeVars

\* fetch settles: handleSubmit goes on to await response.json(), or to its
\* catch block if fetch rejected.
handleSubmit_fetched ==
  /\ submit.at = "fetch"
  /\ \E o \in PageFetchOutcomes(submit.question) :
       IF o.fetch = "rejects"
       THEN /\ home' = handleSubmit_catch(home, o.message)
            /\ submit' = [submit EXCEPT !.at = "idle", !.outcome = o]
       ELSE /\ submit' = [submit EXCEPT !.at = "json", !.outcome = o]
            /\ UNCHANGED home
  /\ UNCHANGED routeVars

\* response.json() settles: handleSubmit runs to its end.
handleSubmit_json ==
  /\ submit.at = "json"
  /\ LET r == handleSubmit_try(submit.outcome) IN
       home' = IF r.threw THEN handleSubmit_catch(home, r.message)
               ELSE handleSubmit_done(home, r.value)
  /\ submit' = [submit EXCEPT !.at = "idle"]
  /\ UNCHANGED routeVars

PageNext ==
  \/ \E q \in PageQuestions : setQuestion(q)
  \/ handleSubmit_start
  \/ handleSubmit_fetched
  \/ handleSubmit_json

PageSpec == Init /\ [][PageNext]_vars

(***************************************************************************)
(* Properties                                                              *)
(***************************************************************************)
\* s contains sub as a substring.
Contains(s, sub) ==
  \E i \in 0..(Len(s) - Len(sub)) : SubSeq(s, i + 1, i + Len(sub)) = sub

\* o is an object with exactly one key per engine name.
HasEngineKeys(o) ==
  /\ o.t = "object"
  /\ Len(o.k) = NumEngines
  /\ \A i \in 1..NumEngines : HasKey(o, EngineNames[i])

\* Every one of the five report fields of o is a non-empty string.
HasReportFields(o) ==
  \A i \in 1..Len(ReportKeys) :
    /\ HasKey(o, ReportKeys[i])
    /\ GetProp(o, ReportKeys[i]).t = "string"
    /\ GetProp(o, ReportKeys[i]).s # ""

\* queryAllEngines has returned.
FanOutReturned == toolResponses # Undefined

\* generateSubQuestions has returned.
Decomposed == pc # "start" /\ pc # "generateSubQuestions" /\ question # ""

\* The fetch of the call had an outcome that is a failure of the call.
CallFailed(o) == o \in FailedCalls

EngineFailed(i) == CallFailed(fetched.queries[i])
EngineSucceeded(i) == \E t \in EngineTexts : fetched.queries[i] = Completion(Str(t))

\* C1: whatever the engines' outcomes and the order they settle in, the
\* mapping queryAllEngines returns, and the toolResponses of a 200 response,
\* has exactly one key per configured engine name.
C1_OneKeyPerEngine ==
  /\ FanOutReturned => HasEngineKeys(toolResponses)
  /\ response.status = 200 => HasEngineKeys(GetProp(response.body, "toolResponses"))

\* The fan-out returned after the last engine failed and the first succeeded.
C1_Witness ==
  /\ FanOutReturned
  /\ EngineFailed(NumEngines)
  /\ EngineSucceeded(1)
  /\ Len(toolResponses.k) = NumEngines

\* C2: the report synthesizeReport returns always has non-empty strings in
\* all five fields, for JSON synthesis text of any content, for text that is
\* not JSON and for a failed synthesis call.
C2_ReportFieldsNonEmpty ==
  (pc = "done" /\ response.status = 200) => HasReportFields(masterReport)

\* C3: for every non-empty question and every outcome of the decomposition
\* call, generateSubQuestions returns at least one sub-question.
C3_SubQuestionsNonEmpty == Decomposed => Len(subQuestions) >= 1

\* C4: all four engine calls are issued before the fan-out waits, and the
\* fan-out returns only when every engine call has settled, whether calls
\* failed or not.
C4_WaitsForAllEngines ==
  /\ pc = "queryAllEngines" =>
       /\ \A i \in 1..NumEngines : queries[i].st # "none"
       /\ Len(calls) = 1 + NumEngines
  /\ FanOutReturned =>
       \A i \in 1..NumEngines : queries[i].st \in {"fulfilled", "rejected"}

\* The first engine call has failed and the fan-out still waits for the
\* second, which then settles.
C4_Witness ==
  /\ pc = "queryAllEngines"
  /\ EngineFailed(1)
  /\ queries[2].st = "pending"
  /\ ENABLED EngineSettles(2)

\* The text of toolResponses[name] in the response.
ResponseEntry(i) == GetProp(GetProp(response.body, "toolResponses"), EngineNames[i])

\* Some engine calls failed and others succeeded.
MixedOutcomes ==
  /\ \E i \in 1..NumEngines : EngineFailed(i)
  /\ \E i \in 1..NumEngines : EngineSucceeded(i)

\* C5: when some engine calls fail and others succeed, the request ends
\* with a 200 response after a synthesis call; a failed engine's entry is
\* text containing the error message of its call and a succeeding engine's
\* entry is the text its call returned.
C5_FailureIsolated ==
  (pc = "done" /\ MixedOutcomes) =>
    /\ response.status = 200
    /\ Len(calls) = NumEngines + 2
    /\ \A i \in 1..NumEngines :
         /\ ResponseEntry(i).t = "string"
         /\ fetched.queries[i] = TransportFailure =>
              Contains(ResponseEntry(i).s, "fetch failed")
         /\ fetched.queries[i] = RateLimited =>
              Contains(ResponseEntry(i).s, "Rate limit reached")
         /\ \A t \in EngineTexts :
              fetched.queries[i] = Completion(Str(t)) => ResponseEntry(i).s = t

C5_Witness ==
  /\ pc = "done"
  /\ response.status = 200
  /\ fetched.queries[1] = TransportFailure
  /\ fetched.queries[2] = RateLimited
  /\ EngineSucceeded(3)

\* C6: if the synthesis call fails, the report is the canned failure report
\* (a summary describing the failure, the fixed messages, a recommendation to
\* retry, no raw-text field) and the response is a 200 response.
C6_FailedSynthesisIsCanned ==
  (pc = "done" /\ CallFailed(fetched.synthesis)) =>
    /\ response.status = 200
    /\ masterReport.t = "object"
    /\ masterReport.k = ReportKeys
    /\ StartsWith(GetProp(masterReport, "executiveSummary").s, "Synthesis failed: ")
    /\ GetProp(masterReport, "keyFindings") = Str("Unable to synthesize findings")
    /\ GetProp(masterReport, "toolComparison") = Str("Error during synthesis")
    /\ GetProp(masterReport, "risksUncertainties") = Str("Synthesis error")
    /\ GetProp(masterReport, "recommendations") = Str("Please try again")

\* C7: for every non-empty question and every outcome of the decomposition
\* call, the request ends with a 200 response.
C7_DecompositionNeverSurfaces ==
  (pc = "done" /\ question # "") => response.status = 200

\* The decomposition call failed or returned text that is not JSON (as is
\* the text returned when no API key is set).
DecompositionDegraded ==
  \/ ~apiKey
  \/ CallFailed(fetched.decomposition)
  \/ fetched.decomposition = Completion(Null)
  \/ \E t \in DecompositionProse : fetched.decomposition = Completion(Str(t))

\* C8: if the decomposition call fails or returns text that is not JSON,
\* generateSubQuestions returns exactly three sub-questions, with the
\* relevances 'Definition and context', 'Core components', 'Impact and
\* consequences' in this order, each question containing the question text.
C8_FallbackSubQuestions ==
  (Decomposed /\ DecompositionDegraded) =>
    /\ Len(subQuestions) = 3
    /\ \A i \in 1..3 :
         /\ subQuestions[i].t = "object"
         /\ subQuestions[i].k = <<"question", "relevance">>
         /\ Contains(GetProp(subQuestions[i], "question").s, question)
    /\ GetProp(subQuestions[1], "relevance") = Str("Definition and context")
    /\ GetProp(subQuestions[2], "relevance") = Str("Core components")
    /\ GetProp(subQuestions[3], "relevance") = Str("Impact and consequences")

C8_Witness ==
  /\ pc = "queryAllEngines"
  /\ fetched.decomposition = TransportFailure
  /\ Len(subQuestions) = 3

\* C9: with no API key, the request ends with a 200 response in which every
\* engine's entry is the not-configured text, returned as an ordinary value,
\* subQuestions is a non-empty list and the five report fields are there.
C9_NotConfigured ==
  (~apiKey /\ pc = "done" /\ question # "") =>
    /\ response.status = 200
    /\ HasEngineKeys(GetProp(response.body, "toolResponses"))
    /\ \A i \in 1..NumEngines :
         /\ queries[i].st = "fulfilled"
         /\ ResponseEntry(i) = Str(NotConfigured)
    /\ GetProp(response.body, "subQuestions").t = "array"
    /\ Len(GetProp(response.body, "subQuestions").a) >= 1
    /\ HasReportFields(response.body)

C9_Witness ==
  /\ ~apiKey
  /\ pc = "done"
  /\ response.status = 200
  /\ Len(calls) = NumEngines + 2

\* The request carries no question that is a non-empty string.
NoValidQuestion ==
  \/ ~request.ok
  \/ request.v.t # "object"
  \/ ~HasKey(request.v, "question")
  \/ GetProp(request.v, "question").t # "string"
  \/ GetProp(request.v, "question") = Str("")

\* C10: a request whose question is missing, empty or not a string is
\* answered with a 400 response carrying an error message, and no call is
\* issued for it.
C10_InvalidQuestionIs400 ==
  (pc = "done" /\ NoValidQuestion) =>
    /\ response.status = 400
    /\ GetProp(response.body, "error").t = "string"
    /\ calls = <<>>

\* The text callOpenAI returned to synthesizeReport.
SynthesisText == synthesis.value

\* The request ended with a 200 response built from a synthesis text.
Synthesized == pc = "done" /\ response.status = 200 /\ synthesis.st = "fulfilled"

\* The report made from a text that is not JSON: the summary is the first
\* SummaryLength characters of the text followed by "...", the other four
\* fields are the fixed placeholders, and the field named rawField holds the
\* whole text; a report parsed from JSON text has no field named rawField.
DegradedReport(rawField) ==
  Synthesized =>
    IF SynthesisText \in SynthesisJSON
    THEN ~HasKey(masterReport, rawField)
    ELSE /\ masterReport.t = "object"
         /\ masterReport.k = ReportKeys \o <<rawField>>
         /\ GetProp(masterReport, "executiveSummary") =
              Str((IF Len(SynthesisText) <= SummaryLength THEN SynthesisText
                   ELSE SubSeq(SynthesisText, 1, SummaryLength)) \o "...")
         /\ GetProp(masterReport, "keyFindings") = Str("See full synthesis below")
         /\ GetProp(masterReport, "toolComparison") = Str("Multiple tools were queried")
         /\ GetProp(masterReport, "risksUncertainties") =
              Str("Various uncertainties exist in the research")
         /\ GetProp(masterReport, "recommendations") =
              Str("Further investigation recommended")
         /\ GetProp(masterReport, rawField) = Str(SynthesisText)

\* C11 (as amended): when the text the synthesis call returns is not valid
\* JSON, synthesizeReport returns a report whose executiveSummary is the
\* first 500 characters of that text followed by "...", whose other four
\* fields are fixed placeholder strings, and whose fullSynthesis field holds
\* the complete untruncated text; synthesizeReport adds the fullSynthesis
\* field in this case only.
C11_FullSynthesisKept == DegradedReport("fullSynthesis")

\* A synthesis text longer than the summary was structured by hand.
C11_Witness ==
  /\ Synthesized
  /\ SynthesisText \notin SynthesisJSON
  /\ Len(SynthesisText) > SummaryLength
  /\ HasKey(masterReport, "fullSynthesis")

\* C11 (as stated): the same, with the raw text held by a field named
\* fullSynthesisRaw.
C11_FullSynthesisRawKept == DegradedReport("fullSynthesisRaw")

\* The synthesis completion carried the text t.
SynthesisReturned(t) == Synthesized /\ fetched.synthesis = Completion(Str(t))

\* The five-key JSON texts of SynthesisJSON.
FiveKeyTexts == {t \in SynthesisJSON : Contains(t, "recommendations")}

\* C12: when the synthesis call returns valid JSON with exactly the five
\* report keys, the report synthesizeReport returns is that JSON object:
\* the same five keys in the same order, each with the upstream value.
C12_FiveKeyRoundTrip ==
  /\ SynthesisReturned(FiveKeyReport) =>
       masterReport =
         Obj(<<"executiveSummary", "keyFindings", "toolComparison",
               "risksUncertainties", "recommendations">>,
             << Str("Tidal locking is common."), Str("- torque"), Str("All agree"),
                Str("[UNCERTAIN] timescale"), Str("Read more") >>)
  /\ (\E t \in FiveKeyTexts \ {FiveKeyReport} : SynthesisReturned(t)) =>
       masterReport =
         Obj(<<"executiveSummary", "keyFindings", "toolComparison",
               "risksUncertainties", "recommendations">>,
             << Str(""), Null, Num(3), Arr(<<>>), EmptyObj >>)

\* A request ended after the synthesis call returned the five-key report.
C12_Witness == SynthesisReturned(FiveKeyReport) /\ HasReportFields(masterReport)

\* How each engine's persona instruction introduces itself.
PersonaOf ==
  << "You are OpenAI's Deep Research engine.",
     "You are Perplexity's Deep Research engine.",
     "You are Kimi K2,",
     "You are Gemini 2.5 Pro " >>

\* The call made with the persona instruction of the i-th engine name.
EngineCall(i) == calls[1 + i]

\* The text an engine call returns for the outcome o of its fetch.
OutcomeText(o) ==
  CASE o = NoFetch          -> "OpenAI API key not configured. Please set OPENAI_API_KEY environment variable."
    [] o = TransportFailure -> "API Error: fetch failed"
    [] o = RateLimited      -> "API Error: Rate limit reached"
    [] OTHER                -> CHOOSE t \in EngineTexts : o = Completion(Str(t))

\* C13: whatever the order in which the engine calls settle, the entry
\* stored under each engine name is the outcome of the call made with that
\* engine's persona instruction, and of no other call.
C13_EntryOfOwnCall ==
  FanOutReturned =>
    \A i \in 1..NumEngines :
      /\ StartsWith(EngineCall(i).systemPrompt, PersonaOf[i])
      /\ GetProp(toolResponses, EngineNames[i]) = Str(OutcomeText(fetched.queries[i]))

\* The fan-out returned after calls that all ended differently.
C13_Witness ==
  /\ FanOutReturned
  /\ fetched.queries[1] = RateLimited
  /\ EngineSucceeded(2)
  /\ fetched.queries[3] = TransportFailure
  /\ GetProp(toolResponses, "Perplexity Deep Research") \in {Str(t) : t \in EngineTexts}

\* The promise of a call that was made and has settled.
Settled(p) == p.st \in {"fulfilled", "rejected"}

\* The promise of a call that was made, settled or not.
Issued(p) == p.st # "none"

\* C14: within one request no engine call is issued before the decomposition
\* call has settled, the synthesis call is issued only after all engine
\* calls have settled, the 200 response is produced only after the synthesis
\* call has settled, and only engine calls are ever pending together.
C14_StagesInOrder ==
  /\ \A i \in 1..NumEngines : Issued(queries[i]) => Settled(decomposition)
  /\ Issued(synthesis) => \A i \in 1..NumEngines : Settled(queries[i])
  /\ response.status = 200 => Settled(synthesis)
  /\ decomposition.st = "pending" =>
       /\ ~Issued(synthesis)
       /\ \A i \in 1..NumEngines : ~Issued(queries[i])
  /\ synthesis.st = "pending" =>
       \A i \in 1..NumEngines : queries[i].st # "pending"
  /\ pc = "done" =>
       /\ decomposition.st # "pending"
       /\ synthesis.st # "pending"
       /\ \A i \in 1..NumEngines : queries[i].st # "pending"

\* Two engine calls are in flight together, after the decomposition call
\* and another engine call have settled and before any synthesis call.
C14_Witness ==
  /\ pc = "queryAllEngines"
  /\ queries[1].st = "pending"
  /\ queries[3].st = "pending"
  /\ Settled(queries[2])
  /\ Settled(decomposition)
  /\ ~Issued(synthesis)

\* C15: for every validated request and every combination of call outcomes,
\* by the end of the request callOpenAI was invoked exactly once for the
\* decomposition, exactly once with each engine's persona instruction and
\* exactly once for the synthesis.
C15_EachCallOnce ==
  (pc = "done" /\ question # "") =>
    /\ Len(calls) = NumEngines + 2
    /\ calls[1].systemPrompt = DecomposePrompt
    /\ \A i \in 1..NumEngines : StartsWith(EngineCall(i).systemPrompt, PersonaOf[i])
    /\ calls[NumEngines + 2].userMessage = SynthesisUserMessage

\* The call synthesizeReport makes.
SynthesisCall == calls[NumEngines + 2]

\* The section of the synthesis prompt labeled name and holding text.
Section(name, text) == "\n=== " \o name \o " ===\n" \o text \o "\n"

\* synthesizeReport has made its call, whose fetch has not settled yet.
SynthesisCallMade ==
  pc = "synthesizeReport" /\ Issued(synthesis) /\ fetched.synthesis = NoFetch

\* C16: the synthesis prompt contains, for every configured engine, a
\* section labeled with the engine's name that holds exactly the text stored
\* for it in toolResponses, the error text of a failed engine included.
C16_EverySectionInPrompt ==
  SynthesisCallMade =>
    \A i \in 1..NumEngines :
      /\ GetProp(toolResponses, EngineNames[i]).t = "string"
      /\ Contains(SynthesisCall.systemPrompt,
                  Section(EngineNames[i], GetProp(toolResponses, EngineNames[i]).s))
      /\ EngineFailed(i) =>
           Contains(SynthesisCall.systemPrompt,
                    Section(EngineNames[i], OutcomeText(fetched.queries[i])))

\* The synthesis call was made after the second engine failed and the third
\* succeeded.
C16_Witness ==
  /\ SynthesisCallMade
  /\ fetched.queries[2] = RateLimited
  /\ EngineSucceeded(3)
  /\ Contains(SynthesisCall.systemPrompt,
              Section("Perplexity Deep Research", "API Error: Rate limit reached"))

\* The text of the question of the i-th sub-question as a JSON body carries
\* it: null when the sub-question has no question.
QuestionText(i) ==
  IF GetProp(subQuestions[i], "question").t = "undefined" THEN Null
  ELSE GetProp(subQuestions[i], "question")

\* The synthesis JSON with keys named subQuestions and toolResponses.
ForgedReport ==
  CHOOSE t \in SynthesisJSON : Contains(t, "forged")

\* C17: in every 200 response toolResponses is the mapping the fan-out
\* returned and subQuestions is the list of the decomposer's question texts
\* in order, whatever keys the synthesized report has.
C17_PipelineValuesWin ==
  response.status = 200 =>
    /\ GetProp(response.body, "toolResponses") = toolResponses
    /\ GetProp(response.body, "subQuestions") =
         Arr([i \in 1..Len(subQuestions) |-> QuestionText(i)])

\* A 200 response whose report was parsed from JSON with keys named
\* subQuestions and toolResponses.
C17_Witness ==
  /\ response.status = 200
  /\ SynthesisReturned(ForgedReport)
  /\ HasKey(masterReport, "toolResponses")
  /\ HasKey(masterReport, "subQuestions")
  /\ GetProp(masterReport, "toolResponses") # toolResponses
  /\ GetProp(response.body, "error") = Str("none")

\* C18: if every callOpenAI call eventually settles, every request to POST
\* eventually has a response; a request has a response exactly when POST has
\* returned, the status of the response is 200, 400 or 500, and a response
\* once given is never replaced.
C18_AnswersExactlyOnce ==
  /\ <>(pc = "done")
  /\ [](pc = "done" <=> response # NoResponse)
  /\ [](pc = "done" => response.status \in {200, 400, 500})
  /\ [][response # NoResponse => response' = response]_vars

\* POST answered after every one of its calls had failed.
C18_Witness ==
  /\ pc = "done"
  /\ response.status = 200
  /\ CallFailed(fetched.decomposition)
  /\ \A i \in 1..NumEngines : EngineFailed(i)
  /\ CallFailed(fetched.synthesis)

\* A run of handleSubmit is under way.
Running == submit.at # "idle"

\* A run of handleSubmit has ended.
RunEnded == submit.at = "idle" /\ submit.outcome # NoFetch

\* The fetch of the run resolved with a success response.
SuccessResponse == submit.outcome.fetch = "resolves" /\ submit.outcome.ok

ReportSet == home.report # Null
ErrorSet  == home.error # ""

====
